---- MODULE Spec2Model ----
(***************************************************************************)
(* SafePath core: the SafetyModel (src/safety_model.py), the road-graph    *)
(* cache and the route API (src/app.py, src/osmnx_routing.py,              *)
(* src/precache_graph.py).                                                 *)
(*                                                                         *)
(* Numbers.  Python floats are modelled by exact integers and fractions:   *)
(*   - a raw score is an integer number of 1/(10*Scale) units;             *)
(*   - a normalized score is a fraction <<num, den>> in lowest terms;      *)
(*   - a coordinate of the SafetyModel is an integer grid position;        *)
(* so float rounding, overflow, inf and NaN arithmetic are outside the     *)
(* model.  A missing cell (NaN in the DataFrame) is the value NaN below.   *)
(* Python's None is <<>> and a present value x is <<x>>.                   *)
(***************************************************************************)
EXTENDS Integers, Sequences, FiniteSets, TLC

VARIABLES
    csv,            \* the feature table on disk (merged_feature_data.csv)
    safety_model,   \* SafetyModel object: None or <<[df, coords, tree, scores]>>
    ret,            \* the last operation: its name, arguments and outcome
    seen,           \* the first score_location call after compute_scores
    road_graph,     \* app.py global: None or <<G>>, the cached annotated graph
    graph_bounds,   \* app.py global: None or <<box>>
    blob,           \* the file cached_road_graph.pkl
    prev,           \* the outcome of the route request before the last one
    threads         \* the request threads inside init_road_graph: position and locals

vars == <<csv, safety_model, ret, seen, road_graph, graph_bounds, blob, prev, threads>>
cache_vars == <<road_graph, graph_bounds, blob, prev, threads>>

None == <<>>
Some(x) == <<x>>

-----------------------------------------------------------------------------
(* Bounds of the model *)

MaxPoints == 2
MaxCoord == 1
MaxRows == 3
MaxEdges == 2
MaxThreads == 2
MaxLit == 4

-----------------------------------------------------------------------------
(* The feature table *)

NaN == -1

COL_DIST_LIGHT == "distance_to_nearest_streetlight"
COL_COUNT_LIGHT == "count_of_nearby_streetlight_500m_approx"
COL_DIST_POLICE == "distance_to_nearest_policestation"
COL_COUNT_POLICE == "count_of_nearby_policestation_500m_approx"
COL_DIST_STATION == "distance_to_nearest_transportstation"
COL_COUNT_STATION == "count_of_nearby_transportstation_500m_approx"
COL_COUNT_BAR == "count_bar"
COL_COUNT_PUB == "count_pub"

KnownCountCols == {COL_COUNT_LIGHT, COL_COUNT_POLICE, COL_COUNT_STATION}

FeatureCols == {COL_DIST_LIGHT, COL_COUNT_LIGHT, COL_DIST_POLICE, COL_COUNT_POLICE,
                COL_DIST_STATION, COL_COUNT_STATION, COL_COUNT_BAR, COL_COUNT_PUB}

AllCols == FeatureCols

\* A row of the table: its coordinates and one cell per feature column
\* (NaN where the cell is empty or the column is absent from the table).
MkRow(lon, lat, cells) == [longitude |-> lon, latitude |-> lat, cells |-> cells]

NRows(df) == Len(df.rows)

-----------------------------------------------------------------------------
(* Exact arithmetic standing for the floats of compute_scores *)

\* 1/(1+d) is Scale \div (1+d); every distance d of the model has (1+d) | Scale.
Scale == 51 * 10000

RECURSIVE GCD(_, _)
GCD(a, b) == IF b = 0 THEN a ELSE GCD(b, a % b)

\* The fraction n/d (d > 0, n >= 0) in lowest terms.
Frac(n, d) == LET g == GCD(n, d) IN <<n \div g, d \div g>>

One == <<1, 1>>
Zero == <<0, 1>>

RECURSIVE SeqMin(_)
SeqMin(s) == IF Len(s) = 1 THEN s[1]
             ELSE LET m == SeqMin(Tail(s)) IN IF s[1] < m THEN s[1] ELSE m

RECURSIVE SeqMax(_)
SeqMax(s) == IF Len(s) = 1 THEN s[1]
             ELSE LET m == SeqMax(Tail(s)) IN IF s[1] > m THEN s[1] ELSE m

-----------------------------------------------------------------------------
(* SafetyModel.compute_scores, src/safety_model.py:38-102 *)

DefaultWeights == [streetlight |-> 10, police |-> 15, station |-> 5, nightlife |-> -7]

\* def safe_get(col, default=0.0): the column, or a constant series when absent
safe_get(df, col, default) ==
    [i \in 1..NRows(df) |-> IF col \in df.cols THEN df.rows[i].cells[col] ELSE default]

fillna(series, v) == [i \in DOMAIN series |-> IF series[i] = NaN THEN v ELSE series[i]]

dist_light(df) == fillna(safe_get(df, COL_DIST_LIGHT, 0), 9999)
count_light(df) == fillna(safe_get(df, COL_COUNT_LIGHT, 0), 0)
dist_police(df) == fillna(safe_get(df, COL_DIST_POLICE, 0), 9999)
count_police(df) == fillna(safe_get(df, COL_COUNT_POLICE, 0), 0)
dist_station(df) == fillna(safe_get(df, COL_DIST_STATION, 0), 9999)
count_station(df) == fillna(safe_get(df, COL_COUNT_STATION, 0), 0)

\* c.startswith("count_")
StartsWithCount(c) ==
    c \in {COL_COUNT_LIGHT, COL_COUNT_POLICE, COL_COUNT_STATION, COL_COUNT_BAR, COL_COUNT_PUB}

nightlife_cols(df) == {c \in df.cols : StartsWithCount(c) /\ c \notin KnownCountCols}

\* DataFrame.sum(axis=1) skips NaN cells
RECURSIVE RowSum(_, _)
RowSum(cells, cols) ==
    IF cols = {} THEN 0
    ELSE LET c == CHOOSE x \in cols : TRUE
         IN (IF cells[c] = NaN THEN 0 ELSE cells[c]) + RowSum(cells, cols \ {c})

nightlife_count(df) ==
    [i \in 1..NRows(df) |->
        IF nightlife_cols(df) # {} THEN RowSum(df.rows[i].cells, nightlife_cols(df)) ELSE 0]

\* the streetlight component growing with the distance
comp_light_far(df) == [i \in 1..NRows(df) |->
    dist_light(df)[i] + count_light(df)[i] * (Scale \div 100)]

\* components, in units of 1/Scale
comp_light(df) == [i \in 1..NRows(df) |->
    (Scale \div (1 + dist_light(df)[i])) + count_light(df)[i] * (Scale \div 100)]
comp_police(df) == [i \in 1..NRows(df) |->
    (Scale \div (1 + dist_police(df)[i])) + count_police(df)[i] * (Scale \div 10)]
comp_station(df) == [i \in 1..NRows(df) |->
    (Scale \div (1 + dist_station(df)[i])) + count_station(df)[i] * (Scale \div 50)]
comp_nightlife(df) == [i \in 1..NRows(df) |-> nightlife_count(df)[i] * Scale]

\* raw_score, in units of 1/(10*Scale): the weights are given in tenths
raw_score(df, weights) == [i \in 1..NRows(df) |->
      weights.streetlight * comp_light(df)[i]
    + weights.police * comp_police(df)[i]
    + weights.station * comp_station(df)[i]
    + weights.nightlife * comp_nightlife(df)[i]]

\* normalize with the degenerate branch written np.zeros_like
normalize_zeros(raw) ==
    IF Len(raw) = 0 THEN <<>>
    ELSE LET minv == SeqMin(raw)
             maxv == SeqMax(raw)
         IN IF maxv - minv <= 0
            THEN [i \in DOMAIN raw |-> Zero]
            ELSE [i \in DOMAIN raw |-> Frac(raw[i] - minv, maxv - minv)]

\* Normalize to 0-1.  On an empty series min() and max() are NaN, the test
\* "maxv - minv <= 0" is False and the else branch yields an empty series.
normalize(raw) ==
    IF Len(raw) = 0 THEN <<>>
    ELSE LET minv == SeqMin(raw)
             maxv == SeqMax(raw)
         IN IF maxv - minv <= 0
            THEN [i \in DOMAIN raw |-> One]
            ELSE [i \in DOMAIN raw |-> Frac(raw[i] - minv, maxv - minv)]

\* the object after compute_scores(weights): self.scores is set
compute_scores(sm, weights) == [sm EXCEPT !.scores = Some(normalize(raw_score(sm.df, weights)))]

-----------------------------------------------------------------------------
(* SafetyModel.__init__, score_location, nearest_index *)

SqDist(a, b) == (a[1] - b[1]) * (a[1] - b[1]) + (a[2] - b[2]) * (a[2] - b[2])

\* self._coords: one (longitude, latitude) pair per row
coords_of(df) == [i \in 1..NRows(df) |-> <<df.rows[i].longitude, df.rows[i].latitude>>]

\* cKDTree(self._coords).  Which of several equidistant points a query returns
\* is fixed by the tree's construction but not documented: the model lets a
\* tree prefer either the lowest or the highest row among them.
Trees(df) == {[data |-> coords_of(df), prefer |-> p] : p \in {"lowest", "highest"}}

\* SafetyModel(csv_path): the table is read, the tree is built, scores is None
SafetyModelInit(table, tree) == [df |-> table, tree |-> tree, scores |-> None]

\* tree.query comparing longitudes only
tree_query_lon_only(tree, lon, lat) ==
    LET n == Len(tree.data)
        d(i) == (tree.data[i][1] - lon) * (tree.data[i][1] - lon)
        near == {i \in 1..n : \A j \in 1..n : d(i) <= d(j)}
    IN IF n = 0 THEN n
       ELSE IF tree.prefer = "lowest"
            THEN (CHOOSE i \in near : \A j \in near : i <= j) - 1
            ELSE (CHOOSE i \in near : \A j \in near : i >= j) - 1

\* tree.query([lon, lat], k=1)[1]: the 0-based index of the nearest point
\* under the Euclidean distance; on an empty tree the index is n (= 0).
tree_query(tree, lon, lat) ==
    LET n == Len(tree.data)
        d(i) == SqDist(tree.data[i], <<lon, lat>>)
        near == {i \in 1..n : \A j \in 1..n : d(i) <= d(j)}
    IN IF n = 0 THEN n
       ELSE IF tree.prefer = "lowest"
            THEN (CHOOSE i \in near : \A j \in near : i <= j) - 1
            ELSE (CHOOSE i \in near : \A j \in near : i >= j) - 1

ErrNotComputed == "RuntimeError: Call compute_scores() first"
ErrIndex == "IndexError: single positional indexer is out-of-bounds"

Return(v) == [ok |-> TRUE, val |-> v, err |-> ""]
Raise(e) == [ok |-> FALSE, val |-> <<>>, err |-> e]

\* Series.iloc[idx]
iloc(series, idx) == IF idx + 1 \in DOMAIN series THEN Return(series[idx + 1]) ELSE Raise(ErrIndex)

\* score_location written with Series.pop in place of a read
score_location_pop(sm, lon, lat) ==
    IF sm.scores = None
    THEN [out |-> Raise(ErrNotComputed), sm |-> sm]
    ELSE LET s == sm.scores[1]
             idx == tree_query(sm.tree, lon, lat)
         IN [out |-> iloc(s, idx),
             sm |-> IF idx + 1 \in DOMAIN s
                    THEN [sm EXCEPT !.scores =
                            Some(SubSeq(s, 1, idx) \o SubSeq(s, idx + 2, Len(s)))]
                    ELSE sm]

\* score_location(lon, lat): the outcome and the object after the call
score_location(sm, lon, lat) ==
    IF sm.scores = None
    THEN [out |-> Raise(ErrNotComputed), sm |-> sm]
    ELSE [out |-> iloc(sm.scores[1], tree_query(sm.tree, lon, lat)), sm |-> sm]

\* nearest_index(lon, lat): no test of self.scores
nearest_index(sm, lon, lat) ==
    [out |-> Return(<<tree_query(sm.tree, lon, lat)>>), sm |-> sm]

-----------------------------------------------------------------------------
(* Road graphs, src/osmnx_routing.py                                       *)
(*                                                                         *)
(* A longitude or latitude of a box, a node or a route endpoint is an      *)
(* integer number of 0.00125-degree units, so 0.01 degrees is 8 units and  *)
(* 0.02 degrees is 16.  A graph is [nodes, xy, edges]; an edge is          *)
(* [u, v, key, length, safety, safety_cost] with the two annotations None  *)
(* until annotate_graph_with_safety has set them.  A cost is a fraction    *)
(* <<num, den>> counted in units of 1/eps = 10^6.                          *)

\* eps = 1e-6, as its inverse
EpsInv == 1000000

LCM(a, b) == (a \div GCD(a, b)) * b

FracLE(x, y) == LET l == LCM(x[2], y[2]) IN x[1] * (l \div x[2]) <= y[1] * (l \div y[2])
FracAdd(x, y) == LET l == LCM(x[2], y[2])
                 IN Frac(x[1] * (l \div x[2]) + y[1] * (l \div y[2]), l)

Abs(x) == IF x < 0 THEN -x ELSE x

\* haversine_meters(lon1, lat1, lon2, lat2), src/safety_model.py:9-17.  The
\* model takes the great-circle distance of two nearby points to be their
\* planar distance: 10 length units per coordinate unit, rounded down.
haversine_meters(lon1, lat1, lon2, lat2) ==
    LET sq == 100 * SqDist(<<lon1, lat1>>, <<lon2, lat2>>)
    IN CHOOSE r \in 0..(10 * (Abs(lon1 - lon2) + Abs(lat1 - lat2))) :
          r * r <= sq /\ (r + 1) * (r + 1) > sq

\* What .get() finds for a node coordinate or an edge attribute that is not
\* there (Python's None)
Absent == -1000

MkEdge(u, v, key, length) ==
    [u |-> u, v |-> v, key |-> key, length |-> length, safety |-> None, safety_cost |-> None]

\* length_m / (score + eps) for a score n/d: (length_m * d) / (n * 10^6 + d) units
safety_cost_of(length_m, score) == Frac(length_m * score[2], score[1] * EpsInv + score[2])

\* if None in (lon_u, lat_u, lon_v, lat_v)
missing_coords(G, e) ==
    Absent \in {G.xy[e.u][1], G.xy[e.u][2], G.xy[e.v][1], G.xy[e.v][2]}

\* the neutral score 0.5
Neutral == <<1, 2>>

\* length_m read from the edge's own length attribute in both branches
edge_length_raw(G, e) == IF e.length = Absent THEN 1 ELSE e.length

\* length_m of the loop body: data.get("length", 1.0) when a coordinate is
\* missing, the distance of the endpoints otherwise
edge_length(G, e) ==
    IF missing_coords(G, e) THEN (IF e.length = Absent THEN 1 ELSE e.length)
    ELSE haversine_meters(G.xy[e.u][1], G.xy[e.u][2], G.xy[e.v][1], G.xy[e.v][2])

\* score of the loop body, as the outcome of the score_location call (0.5
\* without a call when a coordinate is missing)
edge_score(G, sm, e) ==
    IF missing_coords(G, e) THEN Return(Neutral)
    ELSE score_location(sm, (G.xy[e.u][1] + G.xy[e.v][1]) \div 2,
                            (G.xy[e.u][2] + G.xy[e.v][2]) \div 2).out

\* a loop that also overwrites the length attribute with length_m
annotated_edges_relength(G, sm) ==
    {LET score == edge_score(G, sm, e).val
         length_m == edge_length(G, e)
     IN [e EXCEPT !.safety = Some(score), !.length = length_m,
                  !.safety_cost = Some(safety_cost_of(length_m, score))]
       : e \in G.edges}

\* The edges of G after the loop of annotate_graph_with_safety, had every
\* score_location call returned.
annotated_edges(G, sm) ==
    {LET score == edge_score(G, sm, e).val
         length_m == edge_length(G, e)
     IN [e EXCEPT !.safety = Some(score),
                  !.safety_cost = Some(safety_cost_of(length_m, score))]
       : e \in G.edges}

\* annotate_graph_with_safety(G, sm): an exception of score_location escapes
\* the loop; otherwise every edge carries safety and safety_cost.
annotate_graph_with_safety(G, sm) ==
    LET failing == {e \in G.edges : ~edge_score(G, sm, e).ok}
    IN IF failing # {}
       THEN Raise(edge_score(G, sm, CHOOSE e \in failing : TRUE).err)
       ELSE Return(<<[G EXCEPT !.edges = annotated_edges(G, sm)]>>)

\* ox.distance.nearest_nodes(G, X, Y): the node nearest to (X, Y)
nearest_nodes(G, X, Y) ==
    LET near == {n \in G.nodes :
                    \A m \in G.nodes : SqDist(G.xy[n], <<X, Y>>) <= SqDist(G.xy[m], <<X, Y>>)}
    IN CHOOSE n \in near : \A m \in near : n <= m

\* the weight function reading safety_cost whatever attribute is asked for
EdgeWeight_safety_only(G, u, v, weight) ==
    LET ws == {e.safety_cost[1] : e \in {x \in G.edges : x.u = u /\ x.v = v}}
    IN CHOOSE w \in ws : \A o \in ws : FracLE(w, o)

\* The weight of going from u to v: the least attribute over parallel edges
\* (networkx's weight function on a multigraph).
EdgeWeight(G, u, v, weight) ==
    LET ws == {IF weight = "length"
               THEN <<IF e.length = Absent THEN 1 ELSE e.length, 1>>
               ELSE e.safety_cost[1]
                 : e \in {x \in G.edges : x.u = u /\ x.v = v}}
    IN CHOOSE w \in ws : \A o \in ws : FracLE(w, o)

HasEdge(G, u, v) == \E e \in G.edges : e.u = u /\ e.v = v

\* The simple paths of G from s to t, as node sequences
Paths(G, s, t) ==
    {p \in UNION {[1..k -> G.nodes] : k \in 1..Cardinality(G.nodes)} :
        /\ p[1] = s
        /\ p[Len(p)] = t
        /\ \A i, j \in DOMAIN p : i # j => p[i] # p[j]
        /\ \A i \in 1..(Len(p) - 1) : HasEdge(G, p[i], p[i + 1])}

RECURSIVE PathCost(_, _, _)
PathCost(G, p, weight) ==
    IF Len(p) <= 1 THEN <<0, 1>>
    ELSE FracAdd(EdgeWeight(G, p[1], p[2], weight), PathCost(G, Tail(p), weight))

\* nx.shortest_path counting every edge 1
shortest_path_fewest_hops(G, source, target, weight) ==
    LET ps == Paths(G, source, target)
    IN IF ps = {} THEN None
       ELSE Some(CHOOSE p \in ps : \A q \in ps : Len(p) <= Len(q))

\* nx.shortest_path(G, source, target, weight): a path of least total weight,
\* or NetworkXNoPath (here None) when target cannot be reached.
shortest_path(G, source, target, weight) ==
    LET ps == Paths(G, source, target)
    IN IF ps = {} THEN None
       ELSE Some(CHOOSE p \in ps :
                    \A q \in ps : FracLE(PathCost(G, p, weight), PathCost(G, q, weight)))

\* the coordinates listed from the last node of the path to the first
path_coords_reversed(G, path) == [i \in DOMAIN path |-> G.xy[path[Len(path) + 1 - i]]]

\* Lines 117-124: the list of (lon, lat) of the path's nodes
path_coords(G, path) == [i \in DOMAIN path |-> G.xy[path[i]]]

\* safest_route_on_graph(G, origin, destination): the coordinates of a path of
\* least safety_cost between the snapped nodes, [] on NetworkXNoPath
safest_route_on_graph(G, origin, destination) ==
    LET orig_node == nearest_nodes(G, origin[1], origin[2])
        dest_node == nearest_nodes(G, destination[1], destination[2])
        path == shortest_path(G, orig_node, dest_node, "safety_cost")
    IN IF path = None THEN <<>> ELSE path_coords(G, path[1])

\* fastest_route_on_graph(G, origin, destination): imported by src/app.py:7
\* and not defined in src/osmnx_routing.py; taken from the Route Planner's
\* MINIMIZE_LENGTH mode: the same with weight "length".
fastest_route_on_graph(G, origin, destination) ==
    LET orig_node == nearest_nodes(G, origin[1], origin[2])
        dest_node == nearest_nodes(G, destination[1], destination[2])
        path == shortest_path(G, orig_node, dest_node, "length")
    IN IF path = None THEN <<>> ELSE path_coords(G, path[1])

-----------------------------------------------------------------------------
(* Bounded inputs of the SafetyModel *)

SeqsUpTo(S, n) == UNION {[1..k -> S] : k \in 0..n}

Coords == (0..MaxCoord) \X {0, 1}

\* Tables that vary the coordinates: row i has i-1 streetlights nearby and
\* every other feature 0, so that rows have different scores under the
\* default weights.
CoordCells(i) == [c \in FeatureCols |-> IF c = COL_COUNT_LIGHT THEN i - 1 ELSE 0]

CoordTables ==
    {[cols |-> AllCols,
      rows |-> [i \in DOMAIN cs |-> MkRow(cs[i][1], cs[i][2], CoordCells(i))]]
        : cs \in SeqsUpTo(Coords, MaxPoints)}

\* Tables that vary the features: row i lies at (i-1, 0).
FeatureCells ==
    {[c \in FeatureCols |->
        CASE c = COL_DIST_LIGHT -> dl
          [] c = COL_COUNT_BAR -> nb
          [] OTHER -> 0]
        : dl \in {NaN, 0, 1}, nb \in {NaN, 1}}

ColumnSets == {AllCols, AllCols \ {COL_DIST_LIGHT}, AllCols \ {COL_COUNT_BAR, COL_COUNT_PUB}}

FeatureTables ==
    {[cols |-> cols,
      rows |-> [i \in DOMAIN fs |->
                  MkRow(i - 1, 0, [c \in FeatureCols |-> IF c \in cols THEN fs[i][c] ELSE NaN])]]
        : cols \in ColumnSets, fs \in SeqsUpTo(FeatureCells, MaxRows)}

Weights ==
    {DefaultWeights,
     [streetlight |-> 0, police |-> 0, station |-> 0, nightlife |-> 0],
     [streetlight |-> -10, police |-> 15, station |-> 0, nightlife |-> 7],
     [streetlight |-> 0, police |-> -3, station |-> 20, nightlife |-> -7]}

-----------------------------------------------------------------------------
(* Operations on a SafetyModel object *)

NoOp == [op |-> "none", arg |-> <<>>, out |-> Return(<<>>)]
NoBlob == [exists |-> FALSE, readable |-> FALSE, graph |-> None, bounds |-> None]
NoPrev == [cause |-> "none", code |-> 0, status |-> ""]
\* no request thread is modelled
NoThreads == <<>>

\* The cache plays no part in the operations of a SafetyModel object
CacheUnused ==
    /\ road_graph = None
    /\ graph_bounds = None
    /\ blob = NoBlob
    /\ prev = NoPrev
    /\ threads = NoThreads

NotSeen == [computed |-> None, first |-> None, other |-> FALSE]

\* sm = SafetyModel(csv_path)
SM_Construct ==
    /\ safety_model = None
    /\ \E t \in Trees(csv) :
         safety_model' = Some(SafetyModelInit(csv, t))
    /\ ret' = [op |-> "SafetyModel", arg |-> <<>>, out |-> Return(<<>>)]
    /\ seen' = NotSeen
    /\ UNCHANGED <<csv, cache_vars>>

\* sm.compute_scores(weights)
SM_ComputeScores(W) ==
    /\ safety_model # None
    /\ \E w \in W :
         /\ safety_model' = Some(compute_scores(safety_model[1], w))
         /\ ret' = [op |-> "compute_scores", arg |-> w, out |-> Return(<<>>)]
    /\ seen' = [computed |-> safety_model'[1].scores, first |-> None, other |-> FALSE]
    /\ UNCHANGED <<csv, cache_vars>>

\* sm.score_location(lon, lat)
SM_ScoreLocation ==
    /\ safety_model # None
    /\ \E q \in Coords :
         LET r == score_location(safety_model[1], q[1], q[2])
         IN /\ safety_model' = Some(r.sm)
            /\ ret' = [op |-> "score_location", arg |-> q, out |-> r.out]
            /\ seen' = CASE seen.computed = None -> seen
                         [] seen.first = None ->
                              [seen EXCEPT !.first = Some([q |-> q, out |-> r.out])]
                         [] seen.first[1].q # q -> [seen EXCEPT !.other = TRUE]
                         [] OTHER -> seen
    /\ UNCHANGED <<csv, cache_vars>>

\* sm.nearest_index(lon, lat)
SM_NearestIndex ==
    /\ safety_model # None
    /\ \E q \in Coords :
         LET r == nearest_index(safety_model[1], q[1], q[2])
         IN /\ safety_model' = Some(r.sm)
            /\ ret' = [op |-> "nearest_index", arg |-> q, out |-> r.out]
    /\ UNCHANGED <<csv, seen, cache_vars>>

InitSM ==
    /\ csv \in CoordTables
    /\ safety_model = None
    /\ ret = NoOp
    /\ seen = NotSeen
    /\ CacheUnused

NextSM ==
    \/ SM_Construct
    \/ SM_ComputeScores({DefaultWeights})
    \/ SM_ScoreLocation
    \/ SM_NearestIndex

SpecSM == InitSM /\ [][NextSM]_vars

InitScores ==
    /\ csv \in FeatureTables
    /\ safety_model = None
    /\ ret = NoOp
    /\ seen = NotSeen
    /\ CacheUnused

NextScores ==
    \/ SM_Construct
    \/ SM_ComputeScores(Weights)

SpecScores == InitScores /\ [][NextScores]_vars

-----------------------------------------------------------------------------
(* Properties of the SafetyModel *)

TheModel == safety_model[1]
TheScores == TheModel.scores[1]
IsQuery == ret.op \in {"score_location", "nearest_index"}

\* C6: on a SafetyModel whose compute_scores has not run, score_location and
\* nearest_index both fail with the "not computed" error; once it has run (on
\* a table with at least one point) score_location returns a value.
C6_QueryBeforeComputeFails ==
    /\ (IsQuery /\ TheModel.scores = None)
          => (~ret.out.ok /\ ret.out.err = ErrNotComputed)
    /\ (ret.op = "score_location" /\ TheModel.scores # None /\ NRows(TheModel.df) > 0)
          => ret.out.ok

\* The errors of the code that stem from the table being empty
NoDataErrors == {ErrIndex}

\* C7: on a SafetyModel built from a table with no AnalysisPoints,
\* score_location fails with a "no data" error, before compute_scores and
\* after it, and never returns a score.
C7_EmptyTableNoData ==
    (ret.op = "score_location" /\ NRows(TheModel.df) = 0)
        => (~ret.out.ok /\ ret.out.err \in NoDataErrors)

InUnit(f) == f[2] > 0 /\ 0 <= f[1] /\ f[1] <= f[2]

\* C8: for every weight mapping and every non-empty table compute_scores
\* stores one score per AnalysisPoint, each in [0,1]; if the raw scores are
\* not all equal the least score is 0 and the greatest is 1, and if they are
\* all equal every score is exactly 1.
C8_ScoresNormalized ==
    (ret.op = "compute_scores" /\ NRows(TheModel.df) > 0) =>
        LET raw == raw_score(TheModel.df, ret.arg)
            n == NRows(TheModel.df)
            equal == \A i, j \in 1..n : raw[i] = raw[j]
        IN /\ TheModel.scores # None
           /\ DOMAIN TheScores = 1..n
           /\ \A i \in 1..n : InUnit(TheScores[i])
           /\ equal => \A i \in 1..n : TheScores[i] = One
           /\ ~equal => /\ \E i \in 1..n : TheScores[i] = Zero
                        /\ \E i \in 1..n : TheScores[i] = One
                        /\ \A i, j \in 1..n :
                              raw[i] <= raw[j] => TheScores[i][1] * TheScores[j][2]
                                                    <= TheScores[j][1] * TheScores[i][2]

\* C8 witness: three points with three different raw scores under a mapping
\* with a negative weight; one score lies strictly between 0 and 1.
C8_Witness ==
    /\ ret.op = "compute_scores"
    /\ ret.arg.streetlight < 0
    /\ NRows(TheModel.df) = 3
    /\ \E i \in 1..3 : TheScores[i] \notin {Zero, One}

\* C8 witness of the degenerate case: several points, all raw scores equal
C8_WitnessEqual ==
    /\ ret.op = "compute_scores"
    /\ NRows(TheModel.df) >= 2
    /\ \A i \in 1..NRows(TheModel.df) : TheScores[i] = One

\* C9: after compute_scores, score_location returns the normalized score of an
\* AnalysisPoint that no other AnalysisPoint is closer to the query than, in
\* the Euclidean distance on the raw coordinates.
C9_NearestPointScore ==
    (ret.op = "score_location" /\ ret.out.ok) =>
        LET pts == coords_of(TheModel.df)
            n == NRows(TheModel.df)
        IN \E i \in 1..n :
              /\ \A j \in 1..n : SqDist(pts[i], ret.arg) <= SqDist(pts[j], ret.arg)
              /\ ret.out.val = TheScores[i]

\* C9 witness: two points at different distances with different scores, and
\* the call returned the score of the nearer one.
C9_Witness ==
    /\ ret.op = "score_location"
    /\ ret.out.ok
    /\ LET pts == coords_of(TheModel.df)
       IN \E i, j \in 1..NRows(TheModel.df) :
             /\ SqDist(pts[i], ret.arg) < SqDist(pts[j], ret.arg)
             /\ TheScores[i] # TheScores[j]
             /\ ret.out.val = TheScores[i]

\* C10: after one compute_scores call every score_location call leaves the
\* stored scores as compute_scores left them, and a call with the coordinate
\* of the first call returns what the first call returned, whatever calls for
\* other coordinates came in between.
C10_ScoreLocationIdempotent ==
    (safety_model # None /\ seen.computed # None) =>
        /\ TheModel.scores = seen.computed
        /\ (seen.first # None /\ ret.op = "score_location" /\ ret.arg = seen.first[1].q)
              => ret.out = seen.first[1].out

\* C10 witness: a call repeats the first call's coordinate after a call for
\* another coordinate, and returns a score.
C10_Witness ==
    /\ seen.first # None
    /\ seen.other
    /\ ret.op = "score_location"
    /\ ret.arg = seen.first[1].q
    /\ ret.out.ok
    /\ NRows(TheModel.df) >= 2

-----------------------------------------------------------------------------
(* The road-graph cache, src/app.py:37-88 *)

\* 0.01 degrees: the tolerance of the reuse test
Tolerance == 8
\* 0.02 degrees: the padding of the default box and of precache_graph
Padding == 16

MkBox(n, s, e, w) == [north |-> n, south |-> s, east |-> e, west |-> w]

\* the reuse test with no tolerance
CoveredExactly(box, gb) ==
    /\ box.north <= gb.north
    /\ box.south >= gb.south
    /\ box.east <= gb.east
    /\ box.west >= gb.west

\* north <= gn + 0.01 and south >= gs - 0.01 and east <= ge + 0.01 and west >= gw - 0.01
Covered(box, gb) ==
    /\ box.north <= gb.north + Tolerance
    /\ box.south >= gb.south - Tolerance
    /\ box.east <= gb.east + Tolerance
    /\ box.west >= gb.west - Tolerance

\* the requested box, not reduced
reduced_box_whole(box) == MkBox(box.north, box.south, box.east, box.west)

\* The box handed to the provider: 50% of the span around the center
reduced_box(box) ==
    LET lat_center == (box.north + box.south) \div 2
        lon_center == (box.east + box.west) \div 2
        lat_range == (box.north - box.south) \div 2
        lon_range == (box.east - box.west) \div 2
    IN MkBox(lat_center + lat_range \div 2, lat_center - lat_range \div 2,
             lon_center + lon_range \div 2, lon_center - lon_range \div 2)

ErrProvider == "provider: the graph download failed"

\* build_graph_for_bbox(north, south, east, west): graph_from_point, then
\* graph_from_bbox if that raised; byPoint and byBbox are what the two calls
\* of the provider answer (None: an exception).  The graph is tagged with the
\* box it was downloaded for.
build_graph_for_bbox(box, byPoint, byBbox) ==
    IF byPoint # None THEN Return(<<[byPoint[1] EXCEPT !.area = box]>>)
    ELSE IF byBbox # None THEN Return(<<[byBbox[1] EXCEPT !.area = box]>>)
    ELSE Raise(ErrProvider)

\* init_safety_model(): the global after the call (built and scored when None)
init_safety_model(sm, table, tree) ==
    IF sm = None THEN Some(compute_scores(SafetyModelInit(table, tree), DefaultWeights))
    ELSE sm

\* Lines 43-53: the globals after the restore attempt, and whether it returned.
\* pickle.load raises on an unreadable file, cache_data['graph'] on a blob
\* without graph, cache_data['bounds'] (after road_graph is assigned) on a blob
\* without bounds; the except clause swallows all three.
restore(rg, gb, file, force_reload) ==
    IF ~force_reload /\ rg = None /\ file.exists
    THEN IF ~file.readable \/ file.graph = None
         THEN [rg |-> rg, gb |-> gb, returned |-> FALSE]
         ELSE IF file.bounds = None
              THEN [rg |-> file.graph, gb |-> gb, returned |-> FALSE]
              ELSE [rg |-> file.graph, gb |-> file.bounds, returned |-> TRUE]
    ELSE [rg |-> rg, gb |-> gb, returned |-> FALSE]

\* init_road_graph(north, south, east, west, force_reload): the globals after
\* the call, its outcome, whether the provider was called and the branch taken.
init_road_graph(rg, gb, sm, file, table, box, force_reload, byPoint, byBbox, tree) ==
    LET a == restore(rg, gb, file, force_reload)
        G == build_graph_for_bbox(reduced_box(box), byPoint, byBbox)
        sm2 == init_safety_model(sm, table, tree)
        A == annotate_graph_with_safety(G.val[1], sm2[1])
    IN IF a.returned
       THEN [road_graph |-> a.rg, graph_bounds |-> a.gb, safety_model |-> sm,
             out |-> Return(a.rg), called |-> FALSE, path |-> "restore"]
       ELSE IF ~force_reload /\ a.rg # None /\ a.gb # None /\ Covered(box, a.gb[1])
       THEN [road_graph |-> a.rg, graph_bounds |-> a.gb, safety_model |-> sm,
             out |-> Return(a.rg), called |-> FALSE, path |-> "reuse"]
       ELSE IF ~G.ok
       THEN [road_graph |-> a.rg, graph_bounds |-> a.gb, safety_model |-> sm,
             out |-> G, called |-> TRUE, path |-> "build"]
       ELSE IF ~A.ok
       THEN [road_graph |-> a.rg, graph_bounds |-> a.gb, safety_model |-> sm2,
             out |-> A, called |-> TRUE, path |-> "build"]
       ELSE [road_graph |-> A.val, graph_bounds |-> Some(box), safety_model |-> sm2,
             out |-> A, called |-> TRUE, path |-> "build"]

-----------------------------------------------------------------------------
(* The route API, src/app.py:467-531 *)

Response(code, status, message, safest, fastest) ==
    [code |-> code, status |-> status, message |-> message,
     safest |-> safest, fastest |-> fastest]

MsgMissing == "Missing origin or destination"
MsgNoRoute == "No route found between the given points. They may be disconnected or outside the graph bounds."
ErrFloat == "ValueError: could not convert string to float"

Max2(a, b) == IF a > b THEN a ELSE b
Min2(a, b) == IF a < b THEN a ELSE b

\* the default box drawn around the origin alone
request_box_origin_only(req) ==
    IF req.bbox # None THEN req.bbox[1]
    ELSE LET o == req.origin[1]
         IN MkBox(o[2] + Padding, o[2] - Padding, o[1] + Padding, o[1] - Padding)

\* Lines 484-499: the request's bbox, or the endpoints padded by 0.02 degrees
request_box(req) ==
    IF req.bbox # None THEN req.bbox[1]
    ELSE LET o == req.origin[1]
             d == req.destination[1]
         IN MkBox(Max2(o[2], d[2]) + Padding, Min2(o[2], d[2]) - Padding,
                  Max2(o[1], d[1]) + Padding, Min2(o[1], d[1]) - Padding)

\* except Exception as e: every exception of the try block ends here
respond_exception(err) == Response(500, "error", err, <<>>, <<>>)

\* a route check that lets every pair of paths through
no_route_never(safest_path, fastest_path) == FALSE

\* if not safest_path or not fastest_path
no_route(safest_path, fastest_path) == safest_path = <<>> \/ fastest_path = <<>>

\* api_safest_route(): the globals after the request, the response, and (for
\* the properties) what happened: cause, the box passed to init_road_graph
\* (None when the request ended before line 502), called, path.
api_safest_route(rg, gb, sm, file, table, req, byPoint, byBbox, tree) ==
    LET same == [road_graph |-> rg, graph_bounds |-> gb, safety_model |-> sm,
                 called |-> FALSE, path |-> "none"]
        box == request_box(req)
        g == init_road_graph(rg, gb, sm, file, table, box, FALSE, byPoint, byBbox, tree)
        after == [road_graph |-> g.road_graph, graph_bounds |-> g.graph_bounds,
                  safety_model |-> g.safety_model, called |-> g.called, path |-> g.path]
        safest_path == safest_route_on_graph(g.out.val[1], req.origin[1], req.destination[1])
        fastest_path == fastest_route_on_graph(g.out.val[1], req.origin[1], req.destination[1])
    IN IF req.origin = None \/ req.destination = None
       THEN [globals |-> same, cause |-> "missing_input", box |-> None,
             resp |-> Response(400, "error", MsgMissing, <<>>, <<>>)]
       ELSE IF req.malformed
       THEN [globals |-> same, cause |-> "malformed_input", box |-> None,
             resp |-> respond_exception(ErrFloat)]
       ELSE IF ~g.out.ok
       THEN [globals |-> after, box |-> Some(box),
             cause |-> IF g.out.err = ErrProvider THEN "provider" ELSE "internal",
             resp |-> respond_exception(g.out.err)]
       ELSE IF no_route(safest_path, fastest_path)
       THEN [globals |-> after, cause |-> "no_path", box |-> Some(box),
             resp |-> Response(404, "error", MsgNoRoute, <<>>, <<>>)]
       ELSE [globals |-> after, cause |-> "ok", box |-> Some(box),
             resp |-> Response(200, "success", "", safest_path, fastest_path)]

-----------------------------------------------------------------------------
(* precache_graph(), src/precache_graph.py:12-64 *)

\* Lines 23-31: the box around the center of the table's points
precache_box(table) ==
    LET lats == [i \in 1..NRows(table) |-> table.rows[i].latitude]
        lons == [i \in 1..NRows(table) |-> table.rows[i].longitude]
        center_lat == (SeqMax(lats) + SeqMin(lats)) \div 2
        center_lon == (SeqMax(lons) + SeqMin(lons)) \div 2
    IN MkBox(center_lat + Padding, center_lat - Padding,
             center_lon + Padding, center_lon - Padding)

\* The file after precache_graph(): written only when the download and the
\* annotation succeed.  On an empty table the center is NaN and
\* build_graph_for_bbox fails on int(math.ceil(nan)).
precache_graph(file, table, byPoint, byBbox, tree) ==
    LET sm == compute_scores(SafetyModelInit(table, tree), DefaultWeights)
        G == build_graph_for_bbox(precache_box(table), byPoint, byBbox)
        A == annotate_graph_with_safety(G.val[1], sm)
    IN IF NRows(table) = 0 \/ ~G.ok \/ ~A.ok THEN file
       ELSE [exists |-> TRUE, readable |-> TRUE, graph |-> A.val,
             bounds |-> Some(precache_box(table))]

-----------------------------------------------------------------------------
(* Bounded inputs of the cache and of the route API *)

NoArea == MkBox(0, 0, 0, 0)

NodeXY == (1 :> <<8, 8>>) @@ (2 :> <<16, 8>>) @@ (3 :> <<24, 16>>)

MkGraph(edges) == [nodes |-> {1, 2, 3}, xy |-> NodeXY, edges |-> edges, area |-> NoArea]

\* What the provider may answer: a graph with a pair of parallel edges and a
\* one-way street into node 3, and a graph whose node 3 is cut off.
ProviderGraphs ==
    {MkGraph({MkEdge(1, 2, 0, 80), MkEdge(1, 2, 1, 60), MkEdge(2, 1, 0, 80),
              MkEdge(2, 3, 0, 120)}),
     MkGraph({MkEdge(1, 2, 0, 80), MkEdge(2, 1, 0, 80)})}

ProviderAnswers == {None} \cup {Some(G) : G \in ProviderGraphs}

\* The feature tables of the service: two points with different scores, or none
ServiceTables ==
    {[cols |-> AllCols,
      rows |-> <<MkRow(8, 8, CoordCells(1)), MkRow(24, 16, CoordCells(2))>>],
     [cols |-> AllCols, rows |-> <<>>]}

BaseBox == MkBox(32, 0, 32, 0)

\* The boxes of direct init_road_graph calls: the base box, a box inside it,
\* and the base box with one side moved outwards by 0.01 or 0.015 degrees
\* (north: by 0.005 degrees as well)
Boxes ==
    {BaseBox, MkBox(28, 4, 28, 4)}
    \cup {[BaseBox EXCEPT !.north = @ + d] : d \in {4, 8, 12}}
    \cup {[BaseBox EXCEPT !.south = @ - d] : d \in {8, 12}}
    \cup {[BaseBox EXCEPT !.east = @ + d] : d \in {8, 12}}
    \cup {[BaseBox EXCEPT !.west = @ - d] : d \in {8, 12}}

\* The arguments of direct calls: force_reload is passed for two of the boxes
Calls ==
    {<<b, FALSE>> : b \in Boxes}
    \cup {<<BaseBox, TRUE>>, <<[BaseBox EXCEPT !.north = @ + 12], TRUE>>}

\* The tree of the service's SafetyModel.  No query the sample graphs lead to
\* is equidistant from two points of a service table, so the tree's
\* preference among equidistant points plays no part.
ServiceTree(table) == [data |-> coords_of(table), prefer |-> "lowest"]

\* The files a process may find: none, an unreadable one, one without graph,
\* one without bounds, and the files precache_graph writes
Blobs ==
    LET written == {precache_graph(NoBlob, t, a, None, ServiceTree(t)) :
                       a \in ProviderAnswers, t \in ServiceTables}
    IN written
       \cup {[exists |-> TRUE, readable |-> FALSE, graph |-> None, bounds |-> None]}
       \cup {[f EXCEPT !.graph = None] : f \in written}
       \cup {[f EXCEPT !.bounds = None] : f \in written}

Points == {<<8, 8>>, <<24, 16>>}

\* Route requests: well-formed ones with and without bbox, one without
\* origin, and one whose coordinates are not numbers
Requests ==
    [origin : {Some(q) : q \in Points}, destination : {Some(q) : q \in Points},
     malformed : {FALSE}, bbox : {None, Some(BaseBox)}]
    \cup {[origin |-> None, destination |-> Some(<<8, 8>>), malformed |-> FALSE, bbox |-> None],
          [origin |-> Some(<<8, 8>>), destination |-> Some(<<8, 8>>), malformed |-> TRUE,
           bbox |-> None]}

\* The files the route service starts with: none, or one precache_graph wrote
WrittenBlobs == {f \in Blobs : f.exists => (f.graph # None /\ f.bounds # None)}

-----------------------------------------------------------------------------
(* Operations of the service *)

\* What the two calls of the provider answer within one build_graph_for_bbox:
\* the second call is made only when the first raised.
ProviderRuns ==
    {<<a, None>> : a \in ProviderAnswers \ {None}} \cup {<<None, a>> : a \in ProviderAnswers}

\* A direct call init_road_graph(north, south, east, west, force_reload)
InitRoadGraph ==
    \E call \in Calls, run \in ProviderRuns :
      \E box \in {call[1]}, force_reload \in {call[2]},
         r \in {init_road_graph(road_graph, graph_bounds, safety_model, blob, csv,
                                call[1], call[2], run[1], run[2], ServiceTree(csv))} :
           /\ road_graph' = r.road_graph
           /\ graph_bounds' = r.graph_bounds
           /\ safety_model' = r.safety_model
           /\ ret' = [op |-> "init_road_graph", box |-> box, force_reload |-> force_reload,
                      called |-> r.called, path |-> r.path, out |-> r.out]
           /\ UNCHANGED <<csv, seen, blob, prev, threads>>

\* POST /api/safest-route
ApiSafestRoute ==
    \E req \in Requests, run \in ProviderRuns :
      \E r \in {api_safest_route(road_graph, graph_bounds, safety_model, blob, csv,
                                 req, run[1], run[2], ServiceTree(csv))} :
           /\ road_graph' = r.globals.road_graph
           /\ graph_bounds' = r.globals.graph_bounds
           /\ safety_model' = r.globals.safety_model
           /\ ret' = [op |-> "api_safest_route", req |-> req, cause |-> r.cause,
                      box |-> r.box,
                      called |-> r.globals.called, path |-> r.globals.path,
                      resp |-> r.resp]
           /\ prev' = IF ret.op = "api_safest_route"
                      THEN [cause |-> ret.cause, code |-> ret.resp.code,
                            status |-> ret.resp.status]
                      ELSE prev
           /\ UNCHANGED <<csv, seen, blob, threads>>

InitService ==
    /\ csv \in ServiceTables
    /\ safety_model = None
    /\ ret = NoOp
    /\ seen = NotSeen
    /\ road_graph = None
    /\ graph_bounds = None
    /\ blob \in Blobs
    /\ prev = NoPrev
    /\ threads = NoThreads

NextCache ==
    \/ InitRoadGraph

SpecCache == InitService /\ [][NextCache]_vars

InitRoute ==
    /\ csv \in ServiceTables
    /\ safety_model = None
    /\ ret = NoOp
    /\ seen = NotSeen
    /\ road_graph = None
    /\ graph_bounds = None
    /\ blob \in WrittenBlobs
    /\ prev = NoPrev
    /\ threads = NoThreads

Next ==
    \/ ApiSafestRoute

Spec == InitRoute /\ [][Next]_vars

-----------------------------------------------------------------------------
(* Properties of the road-graph cache *)

IsInit == ret.op = "init_road_graph"

\* The claimed reuse condition, written out: every side of the box lies at
\* most 0.01 degrees outside gb
WithinTolerance(box, gb) ==
    /\ box.north <= gb.north + Tolerance
    /\ box.south >= gb.south - Tolerance
    /\ box.east <= gb.east + Tolerance
    /\ box.west >= gb.west - Tolerance

\* C1: when the cache holds a graph with bounds and init_road_graph is called
\* without force_reload for a box that is within 0.01 degrees of being
\* contained in the cached bounds, the provider is not called, the cached
\* graph is returned, and the cached graph and bounds are unchanged.
C1_ReuseWithinTolerance ==
    [][(/\ ret'.op = "init_road_graph"
        /\ ~ret'.force_reload
        /\ road_graph # None
        /\ graph_bounds # None
        /\ WithinTolerance(ret'.box, graph_bounds[1]))
          => (/\ ~ret'.called
              /\ ret'.out = Return(road_graph)
              /\ road_graph' = road_graph
              /\ graph_bounds' = graph_bounds)]_vars

\* C1 witness: a call was served from the cache for a box whose north side
\* lies exactly 0.01 degrees outside the cached bounds.
C1_Witness ==
    /\ IsInit
    /\ ret.path = "reuse"
    /\ ~ret.called
    /\ graph_bounds # None
    /\ ret.box.north = graph_bounds[1].north + Tolerance
    /\ ret.out = Return(road_graph)

\* C2: a call whose box exceeds the 0.01-degree tolerance on some side,
\* relative to the bounds of the cache entry the call ends with, has called
\* the provider; in every cache state, the first call of a process included.
C2_ExceedingBoxCallsProvider ==
    (IsInit /\ graph_bounds # None /\ ~WithinTolerance(ret.box, graph_bounds[1]))
        => ret.called

\* C3: a call of init_road_graph that fails leaves the cached graph and the
\* cached bounds exactly as they were before the call.
C3_FailedBuildLeavesCache ==
    [][(ret'.op = "init_road_graph" /\ ~ret'.out.ok)
          => (road_graph' = road_graph /\ graph_bounds' = graph_bounds)]_vars

-----------------------------------------------------------------------------
(* Properties of the route API *)

IsRoute == ret.op = "api_safest_route"

\* What a caller can tell outcomes apart by: the HTTP code and the status
Outcome(code, status) == <<code, status>>

\* C4: over all sequences of requests, a request whose graph could not be
\* built because the provider failed never has the outcome of a request whose
\* graph has no path, nor that of a request that failed for another reason
\* (malformed input, an internal error); checked on consecutive requests.
C4_ProviderFailureDistinct ==
    (IsRoute /\ prev # NoPrev) =>
        LET others == {"no_path", "malformed_input", "internal"}
        IN ((prev.cause = "provider" /\ ret.cause \in others)
              \/ (ret.cause = "provider" /\ prev.cause \in others))
             => Outcome(prev.code, prev.status) # Outcome(ret.resp.code, ret.resp.status)

\* The nodes linked to those of S by edges taken in either direction
RECURSIVE Component(_, _)
Component(G, S) ==
    LET T == S \cup {n \in G.nodes :
                       \E e \in G.edges : (e.u \in S /\ e.v = n) \/ (e.v \in S /\ e.u = n)}
    IN IF T = S THEN S ELSE Component(G, T)

\* The request reached the routing step on the cached graph with endpoints
\* that snap to nodes of two disconnected components
Disconnected ==
    /\ IsRoute
    /\ ret.cause \in {"no_path", "ok"}
    /\ LET G == road_graph[1]
           o == nearest_nodes(G, ret.req.origin[1][1], ret.req.origin[1][2])
           d == nearest_nodes(G, ret.req.destination[1][1], ret.req.destination[1][2])
       IN d \notin Component(G, {o})

\* C5: when the snapped origin and destination lie in two disconnected
\* components, safest_route_on_graph returns the empty path and the route
\* API answers with the no-route error (404, status "error", no
\* coordinates), not with a success response.
C5_DisconnectedIsNoPath ==
    Disconnected =>
        /\ safest_route_on_graph(road_graph[1], ret.req.origin[1], ret.req.destination[1]) = <<>>
        /\ ret.cause = "no_path"
        /\ ret.resp = Response(404, "error", MsgNoRoute, <<>>, <<>>)

\* C5 witness: a request between two disconnected components was answered
\* after a fresh build.
C5_Witness ==
    /\ Disconnected
    /\ ret.called
    /\ ret.resp.code = 404

-----------------------------------------------------------------------------
(* annotate_graph_with_safety on the graphs a provider may hand over *)

\* The edges a graph may have, as (u, v, key): a self-loop, a pair of
\* parallel edges, and a street in both directions
EdgeSlots == {<<1, 1, 0>>, <<1, 2, 0>>, <<1, 2, 1>>, <<2, 3, 0>>, <<3, 2, 0>>}

\* The raw length attribute of an edge: none, 0, or a length that is not the
\* distance of the endpoints
RawLengths == {Absent, 0, 50}

\* The coordinates of the nodes: all there, node 3 without x, node 3 without
\* y, node 3 at the place of node 2
NodeCoords ==
    {NodeXY,
     [NodeXY EXCEPT ![3] = <<Absent, 16>>],
     [NodeXY EXCEPT ![3] = <<24, Absent>>],
     [NodeXY EXCEPT ![3] = NodeXY[2]]}

RawGraphs ==
    UNION {{[nodes |-> {1, 2, 3}, xy |-> xy, area |-> NoArea,
             edges |-> {MkEdge(sl[1], sl[2], sl[3], len[sl]) : sl \in S}]
               : xy \in NodeCoords, len \in [S -> RawLengths]}
             : S \in {T \in SUBSET EdgeSlots : Cardinality(T) <= MaxEdges}}

\* The graph object after a pass that an exception ended: the edges without
\* coordinates that the loop met before the first failing edge are annotated
\* (the loop changes G in place, in the order the edges were inserted).
partially_annotated(G, sm) ==
    {[G EXCEPT !.edges = {IF e \in S
                          THEN CHOOSE a \in annotated_edges([G EXCEPT !.edges = {e}], sm) : TRUE
                          ELSE e : e \in G.edges}]
       : S \in SUBSET {e \in G.edges : missing_coords(G, e)}}

\* G = annotate_graph_with_safety(G, sm) on the object road_graph holds
G_Annotate ==
    /\ road_graph # None
    /\ safety_model # None
    /\ \E r \in {annotate_graph_with_safety(road_graph[1], safety_model[1])} :
         /\ IF r.ok THEN road_graph' = r.val
            ELSE \E H \in partially_annotated(road_graph[1], safety_model[1]) :
                    road_graph' = Some(H)
         /\ ret' = [op |-> "annotate_graph_with_safety", arg |-> road_graph[1],
                    out |-> [ok |-> r.ok, val |-> <<>>, err |-> r.err]]
    /\ UNCHANGED <<csv, safety_model, seen, graph_bounds, blob, prev, threads>>

InitAnnotate ==
    /\ csv \in ServiceTables
    /\ safety_model = Some(compute_scores(SafetyModelInit(csv, ServiceTree(csv)), DefaultWeights))
    /\ ret = NoOp
    /\ seen = NotSeen
    /\ road_graph \in {Some(G) : G \in RawGraphs}
    /\ graph_bounds = None
    /\ blob = NoBlob
    /\ prev = NoPrev
    /\ threads = NoThreads

NextAnnotate ==
    \/ G_Annotate

SpecAnnotate == InitAnnotate /\ [][NextAnnotate]_vars

-----------------------------------------------------------------------------
(* Properties of annotate_graph_with_safety *)

Annotated == ret.op = "annotate_graph_with_safety" /\ ret.out.ok

\* C11: after annotate_graph_with_safety has completed, every edge of the
\* graph carries a safety_cost that is finite and strictly greater than 0,
\* self-loops and edges between nodes at the same place included, for every
\* score in [0,1], 0 included.
C11_SafetyCostPositive ==
    Annotated =>
        \A e \in road_graph[1].edges :
            /\ e.safety_cost # None
            /\ e.safety_cost[1][2] > 0
            /\ e.safety_cost[1][1] > 0

\* C12: after a pass, every edge with a coordinate missing on an endpoint has
\* safety 0.5 and safety_cost 1.0 / (0.5 + eps), whatever raw length it
\* carries; such edges do not make the pass fail, and every other edge is
\* annotated.
C12_MissingCoordinateNominal ==
    /\ (ret.op = "annotate_graph_with_safety"
          /\ \A e \in ret.arg.edges : missing_coords(ret.arg, e)) => ret.out.ok
    /\ Annotated =>
          \A e \in road_graph[1].edges :
              /\ e.safety # None /\ e.safety_cost # None
              /\ missing_coords(road_graph[1], e) =>
                    /\ e.safety[1] = Neutral
                    /\ e.safety_cost[1] = Frac(1 * 2, 1 * EpsInv + 2)

-----------------------------------------------------------------------------
(* safest_route_on_graph and fastest_route_on_graph on annotated graphs *)

\* The edges a routed graph may have: a pair of parallel edges 1 -> 2, the
\* streets 2 -> 3 and 1 -> 3, and the way back 3 -> 2
RouteSlots == {<<1, 2, 0>>, <<1, 2, 1>>, <<2, 3, 0>>, <<1, 3, 0>>, <<3, 2, 0>>}

\* For every slot: no edge there, or the raw length of its edge, which is
\* what the provider measured along the street and not the distance of the
\* endpoints
NoEdge == 0
RouteLengths == {NoEdge, 100, 250}

RouteGraphs ==
    {[nodes |-> {1, 2, 3}, xy |-> NodeXY, area |-> NoArea,
      edges |-> {MkEdge(sl[1], sl[2], sl[3], len[sl]) : sl \in {x \in RouteSlots : len[x] # NoEdge}}]
        : len \in [RouteSlots -> RouteLengths]}

\* The tables the graphs are annotated from: two points with scores 0 and 1,
\* or one point (every edge then has score 1)
RouteTables ==
    {t \in ServiceTables : NRows(t) > 0}
    \cup {[cols |-> AllCols, rows |-> <<MkRow(8, 8, CoordCells(1))>>]}

\* Route endpoints: near node 1, at node 2, at node 3
RoutePoints == {<<9, 9>>, <<16, 8>>, <<24, 16>>}

\* safest_route_on_graph(G, origin, destination)
R_Safest ==
    /\ road_graph # None
    /\ \E o \in RoutePoints, d \in RoutePoints :
         ret' = [op |-> "safest_route_on_graph", origin |-> o, destination |-> d,
                 out |-> safest_route_on_graph(road_graph[1], o, d)]
    /\ UNCHANGED <<csv, safety_model, seen, road_graph, graph_bounds, blob, prev, threads>>

\* fastest_route_on_graph(G, origin, destination)
R_Fastest ==
    /\ road_graph # None
    /\ \E o \in RoutePoints, d \in RoutePoints :
         ret' = [op |-> "fastest_route_on_graph", origin |-> o, destination |-> d,
                 out |-> fastest_route_on_graph(road_graph[1], o, d)]
    /\ UNCHANGED <<csv, safety_model, seen, road_graph, graph_bounds, blob, prev, threads>>

\* A graph of the provider, annotated from a scored SafetyModel
InitRouting ==
    /\ csv \in RouteTables
    /\ \E tree \in Trees(csv) :
         safety_model = Some(compute_scores(SafetyModelInit(csv, tree), DefaultWeights))
    /\ \E G \in RouteGraphs :
         road_graph = annotate_graph_with_safety(G, safety_model[1]).val
    /\ ret = NoOp
    /\ seen = NotSeen
    /\ graph_bounds = None
    /\ blob = NoBlob
    /\ prev = NoPrev
    /\ threads = NoThreads

NextRouting ==
    \/ R_Safest
    \/ R_Fastest

SpecRouting == InitRouting /\ [][NextRouting]_vars

-----------------------------------------------------------------------------
(* Properties of the routes *)

IsSafest == ret.op = "safest_route_on_graph"
IsFastest == ret.op = "fastest_route_on_graph"

TheGraph == road_graph[1]

\* The node at a coordinate (the nodes of the routed graphs lie apart)
NodeAt(c) == CHOOSE n \in TheGraph.nodes : TheGraph.xy[n] = c

\* The node sequence of a returned coordinate list
RouteNodes(coords) == [i \in DOMAIN coords |-> NodeAt(coords[i])]

\* The node a point snaps to: none is nearer to it
SnapsTo(q, n) ==
    \A m \in TheGraph.nodes : SqDist(TheGraph.xy[n], q) <= SqDist(TheGraph.xy[m], q)

\* All node sequences of up to four nodes that follow edges in their direction
Walks ==
    {w \in UNION {[1..k -> TheGraph.nodes] : k \in 1..4} :
        \A i \in 1..(Len(w) - 1) :
            \E e \in TheGraph.edges : e.u = w[i] /\ e.v = w[i + 1]}

WalksBetween(a, b) == {w \in Walks : w[1] = a /\ w[Len(w)] = b}

\* x is the cost of the cheapest edge from u to v
CheapestCost(u, v, x) ==
    /\ \E e \in TheGraph.edges : e.u = u /\ e.v = v /\ e.safety_cost[1] = x
    /\ \A e \in TheGraph.edges : (e.u = u /\ e.v = v) => FracLE(x, e.safety_cost[1])

RECURSIVE WalkCost(_)
WalkCost(w) ==
    IF Len(w) <= 1 THEN <<0, 1>>
    ELSE FracAdd(CHOOSE x \in {e.safety_cost[1] : e \in TheGraph.edges} :
                     CheapestCost(w[1], w[2], x),
                 WalkCost(Tail(w)))

\* x is the raw length of the shortest edge from u to v
ShortestLength(u, v, x) ==
    /\ \E e \in TheGraph.edges : e.u = u /\ e.v = v /\ e.length = x
    /\ \A e \in TheGraph.edges : (e.u = u /\ e.v = v) => x <= e.length

RECURSIVE WalkLength(_)
WalkLength(w) ==
    IF Len(w) <= 1 THEN 0
    ELSE (CHOOSE x \in {e.length : e \in TheGraph.edges} : ShortestLength(w[1], w[2], x))
         + WalkLength(Tail(w))

\* C13: when a path exists between the nodes origin and destination snap to,
\* safest_route_on_graph returns a path of the graph between them whose
\* summed safety_cost, taking the cheapest of parallel edges, is least among
\* all paths between the two nodes.
C13_SafestMinimizesSafetyCost ==
    IsSafest =>
        \A a, b \in TheGraph.nodes :
            (SnapsTo(ret.origin, a) /\ SnapsTo(ret.destination, b)
                /\ WalksBetween(a, b) # {}) =>
                  /\ ret.out # <<>>
                  /\ RouteNodes(ret.out) \in WalksBetween(a, b)
                  /\ \A w \in WalksBetween(a, b) :
                        FracLE(WalkCost(RouteNodes(ret.out)), WalkCost(w))

\* C13 witness: the route 1 -> 2 -> 3 was returned although the graph has the
\* edge 1 -> 3, and it runs over the cheaper of two parallel edges that
\* differ in raw length.
C13_Witness ==
    /\ IsSafest
    /\ ret.out = <<NodeXY[1], NodeXY[2], NodeXY[3]>>
    /\ \E e \in TheGraph.edges : e.u = 1 /\ e.v = 3
    /\ \E e, f \in TheGraph.edges :
          e.u = 1 /\ e.v = 2 /\ f.u = 1 /\ f.v = 2 /\ e.length # f.length

\* C14: when a path exists, fastest_route_on_graph returns a path between
\* the snapped nodes whose summed raw length is least among all paths between
\* them, whatever the safety and safety_cost of the edges.
C14_FastestMinimizesLength ==
    IsFastest =>
        \A a, b \in TheGraph.nodes :
            (SnapsTo(ret.origin, a) /\ SnapsTo(ret.destination, b)
                /\ WalksBetween(a, b) # {}) =>
                  /\ ret.out # <<>>
                  /\ RouteNodes(ret.out) \in WalksBetween(a, b)
                  /\ \A w \in WalksBetween(a, b) :
                        WalkLength(RouteNodes(ret.out)) <= WalkLength(w)

\* C14 witness: the fastest route is returned where the safest route between
\* the same points is another path.
C14_Witness ==
    /\ IsFastest
    /\ Len(ret.out) >= 2
    /\ safest_route_on_graph(TheGraph, ret.origin, ret.destination) # ret.out

Uniform == \A e, f \in TheGraph.edges : e.safety = f.safety

\* C15: on an annotated graph whose edges all have the same safety score,
\* the safest and the fastest route between the same two points are the
\* same node sequence, so they have the same summed raw length, whatever raw
\* lengths the edges carry.
C15_UniformScoreSameRoute ==
    ((IsSafest \/ IsFastest) /\ Uniform) =>
        LET sp == safest_route_on_graph(TheGraph, ret.origin, ret.destination)
            fp == fastest_route_on_graph(TheGraph, ret.origin, ret.destination)
        IN /\ (sp = <<>>) <=> (fp = <<>>)
           /\ WalkLength(RouteNodes(sp)) = WalkLength(RouteNodes(fp))

\* C16: a route that safest_route_on_graph returns is not empty, starts at
\* the node the origin snapped to, ends at the node the destination snapped
\* to, and every two consecutive coordinates are the endpoints of an edge
\* taken in its direction; when both points snap to one node the route is
\* that node's coordinate alone.
C16_RouteIsDirectedPath ==
    (IsSafest /\ ret.out # <<>>) =>
        /\ SnapsTo(ret.origin, NodeAt(ret.out[1]))
        /\ SnapsTo(ret.destination, NodeAt(ret.out[Len(ret.out)]))
        /\ \A i \in 1..(Len(ret.out) - 1) :
              \E e \in TheGraph.edges :
                  TheGraph.xy[e.u] = ret.out[i] /\ TheGraph.xy[e.v] = ret.out[i + 1]
        /\ (\E n \in TheGraph.nodes : SnapsTo(ret.origin, n) /\ SnapsTo(ret.destination, n))
              => Len(ret.out) = 1

\* C16 witness: a route over two edges from node 1 to node 3 in a graph that
\* has no way back from 3 to 1.
C16_Witness ==
    /\ IsSafest
    /\ ret.origin = <<9, 9>>
    /\ ret.out = <<NodeXY[1], NodeXY[2], NodeXY[3]>>
    /\ WalksBetween(3, 1) = {}

-----------------------------------------------------------------------------
(* The box of a route request *)

\* m is the greater (the lesser) of a and b
IsMax(m, a, b) == m \in {a, b} /\ m >= a /\ m >= b
IsMin(m, a, b) == m \in {a, b} /\ m <= a /\ m <= b

\* C17: the box a route request without bbox passes to init_road_graph is
\* max(lat) + 0.02, min(lat) - 0.02, max(lon) + 0.02, min(lon) - 0.02 over
\* origin and destination, so both endpoints lie at least 0.02 degrees inside
\* every side; a bbox the request carries is passed unchanged.
C17_DefaultBoxPadsEndpoints ==
    (IsRoute /\ ret.box # None) =>
        LET b == ret.box[1]
            o == ret.req.origin[1]
            d == ret.req.destination[1]
        IN IF ret.req.bbox # None THEN b = ret.req.bbox[1]
           ELSE /\ IsMax(b.north - Padding, o[2], d[2])
                /\ IsMin(b.south + Padding, o[2], d[2])
                /\ IsMax(b.east - Padding, o[1], d[1])
                /\ IsMin(b.west + Padding, o[1], d[1])
                /\ \A q \in {o, d} :
                      /\ b.north - q[2] >= Padding /\ q[2] - b.south >= Padding
                      /\ b.east - q[1] >= Padding /\ q[1] - b.west >= Padding

\* C17 witness: a request without bbox whose origin and destination differ
\* in longitude and latitude reached init_road_graph and a graph was built
\* for its box.
C17_Witness ==
    /\ IsRoute
    /\ ret.box # None
    /\ ret.req.bbox = None
    /\ ret.req.origin[1][1] < ret.req.destination[1][1]
    /\ ret.req.origin[1][2] < ret.req.destination[1][2]
    /\ ret.called
    /\ graph_bounds = ret.box

-----------------------------------------------------------------------------
(* Restoring the cache from the file *)

\* Loading the file cannot yield an entry: there is no file, or it cannot be
\* read, or it lacks the graph or the bounds
RestoreFails ==
    \/ ~blob.exists
    \/ ~blob.readable
    \/ blob.graph = None
    \/ blob.bounds = None

\* C18: when the cache is empty and restoring it from the file fails, the
\* call goes on to the provider, and nothing of the file stays in the cache:
\* the entry after the call is the one the call built, or, if the build
\* failed, still empty.
C18_FailedRestoreLeavesEmpty ==
    [][(/\ ret'.op = "init_road_graph"
        /\ ~ret'.force_reload
        /\ road_graph = None
        /\ graph_bounds = None
        /\ RestoreFails)
          => /\ ret'.called
             /\ ret'.out.ok => (/\ road_graph' = ret'.out.val
                                /\ road_graph'[1].area = reduced_box(ret'.box)
                                /\ graph_bounds' = Some(ret'.box))
             /\ ~ret'.out.ok => (road_graph' = None /\ graph_bounds' = None)]_vars

\* C19: in every state of the cache road_graph and graph_bounds are both
\* unset, or both set and from the same build (the graph was downloaded for
\* the reduced box of the bounds) or from the same file (the graph was
\* downloaded for the bounds).
C19_EntryWhole ==
    /\ (road_graph = None) <=> (graph_bounds = None)
    /\ (road_graph # None /\ graph_bounds # None) =>
          road_graph[1].area \in {graph_bounds[1], reduced_box(graph_bounds[1])}

-----------------------------------------------------------------------------
(* Concurrent route requests: init_road_graph run by the threads of the    *)
(* server (app.run, src/app.py:559), statement by statement, on the shared *)
(* globals.  No statement of src/app.py takes a lock.  The file            *)
(* cached_road_graph.pkl does not exist in these runs.                     *)

Threads == 1..MaxThreads

\* A thread that is not inside init_road_graph
Idle == [pc |-> "idle", box |-> NoArea, G |-> None, called |-> FALSE]

\* The boxes of concurrent requests: one box, and one that it does not cover
ConcBoxes == {BaseBox, [BaseBox EXCEPT !.north = @ + 12]}

\* What a thread's call leaves in ret when it returns or raises
ThreadResult(t, out) ==
    [op |-> "init_road_graph", thread |-> t, box |-> threads[t].box, force_reload |-> FALSE,
     called |-> threads[t].called, out |-> out]

\* Line 502: a request thread calls init_road_graph(north, south, east, west)
T_Call(t) ==
    /\ threads[t].pc = "idle"
    /\ \E box \in ConcBoxes :
         threads' = [threads EXCEPT ![t] = [Idle EXCEPT !.pc = "L43", !.box = box]]
    /\ UNCHANGED <<csv, safety_model, ret, seen, road_graph, graph_bounds, blob, prev>>

\* Line 43: there is no cache file to load
T_NoCacheFile(t) ==
    /\ threads[t].pc = "L43"
    /\ ~blob.exists
    /\ threads' = [threads EXCEPT ![t].pc = "L56"]
    /\ UNCHANGED <<csv, safety_model, ret, seen, road_graph, graph_bounds, blob, prev>>

\* Lines 56-60: the reuse test on the globals as they are now
T_ReuseTest(t) ==
    /\ threads[t].pc = "L56"
    /\ threads' = [threads EXCEPT ![t].pc =
                     IF road_graph # None /\ graph_bounds # None
                        /\ Covered(threads[t].box, graph_bounds[1])
                     THEN "L62" ELSE "L65"]
    /\ UNCHANGED <<csv, safety_model, ret, seen, road_graph, graph_bounds, blob, prev>>

\* Lines 64-78: the provider is called for the reduced box
T_Build(t) ==
    /\ threads[t].pc = "L65"
    /\ \E run \in ProviderRuns :
         \E G \in {build_graph_for_bbox(reduced_box(threads[t].box), run[1], run[2])} :
            IF G.ok
            THEN /\ threads' = [threads EXCEPT ![t].pc = "L80", ![t].G = G.val,
                                                ![t].called = TRUE]
                 /\ ret' = ret
            ELSE /\ threads' = [threads EXCEPT ![t] = Idle]
                 /\ ret' = [ThreadResult(t, G) EXCEPT !.called = TRUE]
    /\ UNCHANGED <<csv, safety_model, seen, road_graph, graph_bounds, blob, prev>>

\* Lines 80-83: sm = init_safety_model(); G = annotate_graph_with_safety(G, sm)
T_Annotate(t) ==
    /\ threads[t].pc = "L80"
    /\ \E sm \in {init_safety_model(safety_model, csv, ServiceTree(csv))} :
         \E A \in {annotate_graph_with_safety(threads[t].G[1], sm[1])} :
            /\ safety_model' = sm
            /\ IF A.ok
               THEN /\ threads' = [threads EXCEPT ![t].pc = "L85", ![t].G = A.val]
                    /\ ret' = ret
               ELSE /\ threads' = [threads EXCEPT ![t] = Idle]
                    /\ ret' = ThreadResult(t, A)
    /\ UNCHANGED <<csv, seen, road_graph, graph_bounds, blob, prev>>

\* Line 85: road_graph = G
T_StoreGraph(t) ==
    /\ threads[t].pc = "L85"
    /\ road_graph' = threads[t].G
    /\ threads' = [threads EXCEPT ![t].pc = "L87"]
    /\ UNCHANGED <<csv, safety_model, ret, seen, graph_bounds, blob, prev>>

\* Line 87: graph_bounds = (north, south, east, west)
T_StoreBounds(t) ==
    /\ threads[t].pc = "L87"
    /\ graph_bounds' = Some(threads[t].box)
    /\ threads' = [threads EXCEPT ![t].pc = "L88"]
    /\ UNCHANGED <<csv, safety_model, ret, seen, road_graph, blob, prev>>

\* Lines 62 and 88: return road_graph, the global as it is now
T_Return(t) ==
    /\ threads[t].pc \in {"L62", "L88"}
    /\ ret' = ThreadResult(t, Return(road_graph))
    /\ threads' = [threads EXCEPT ![t] = Idle]
    /\ UNCHANGED <<csv, safety_model, seen, road_graph, graph_bounds, blob, prev>>

InitConcurrent ==
    /\ csv \in ServiceTables
    /\ safety_model = None
    /\ ret = NoOp
    /\ seen = NotSeen
    /\ road_graph = None
    /\ graph_bounds = None
    /\ blob = NoBlob
    /\ prev = NoPrev
    /\ threads = [t \in Threads |-> Idle]

NextConcurrent ==
    \E t \in Threads :
        \/ T_Call(t)
        \/ T_NoCacheFile(t)
        \/ T_ReuseTest(t)
        \/ T_Build(t)
        \/ T_Annotate(t)
        \/ T_StoreGraph(t)
        \/ T_StoreBounds(t)
        \/ T_Return(t)

SpecConcurrent == InitConcurrent /\ [][NextConcurrent]_vars

-----------------------------------------------------------------------------
(* Properties of concurrent requests *)

\* The thread is past the provider call of the request it is serving
Rebuilding(t) == threads[t].pc \in {"L80", "L85", "L87", "L88"} /\ threads[t].called

\* C20: of the requests that run at the same time, no two for the same box
\* have both called the provider: the test of the cache and the rebuild that
\* follows it exclude each other.
C20_NoRedundantRebuild ==
    \A t, u \in Threads :
        (t # u /\ Rebuilding(t) /\ Rebuilding(u)) => threads[t].box # threads[u].box

\* The thread is about to read the cache entry (the test of lines 56-60)
Reading(t) == threads[t].pc = "L56"

\* C21: a request that reads the cache while another one replaces the entry
\* sees a graph and bounds of the same build (the graph was downloaded for
\* the reduced box of the bounds), never the new graph with the old bounds.
C21_ReaderSeesWholeEntry ==
    \A t \in Threads :
        (Reading(t) /\ road_graph # None /\ graph_bounds # None)
            => road_graph[1].area = reduced_box(graph_bounds[1])

-----------------------------------------------------------------------------
(* The box of a fresh build *)

\* A direct call that built a graph: the graph it returns carries the box
\* that was handed to the provider
FreshBuild == ret.op = "init_road_graph" /\ ret.path = "build" /\ ret.called /\ ret.out.ok

\* h has the center of b and half its latitude and longitude spans
HalfAroundCenter(h, b) ==
    /\ h.north + h.south = b.north + b.south
    /\ h.east + h.west = b.east + b.west
    /\ 2 * (h.north - h.south) = b.north - b.south
    /\ 2 * (h.east - h.west) = b.east - b.west

\* h lies inside b
Inside(h, b) ==
    /\ h.north <= b.north
    /\ h.south >= b.south
    /\ h.east <= b.east
    /\ h.west >= b.west

\* C22: the box a fresh build hands to the provider has the center of the
\* requested box and half of each of its spans, and lies inside it.
C22_ProviderBoxIsHalf ==
    FreshBuild =>
        /\ HalfAroundCenter(ret.out.val[1].area, ret.box)
        /\ Inside(ret.out.val[1].area, ret.box)

C22_Witness ==
    /\ FreshBuild
    /\ ret.box = MkBox(32, -12, 32, 0)
    /\ ret.out.val[1].area = MkBox(21, -1, 24, 8)

\* C23: whenever the cache holds an entry, its bounds are the box that was
\* handed to the provider for its graph.
C23_BoundsAreDownloadBox ==
    (road_graph # None /\ graph_bounds # None) => road_graph[1].area = graph_bounds[1]

-----------------------------------------------------------------------------
(* Route requests between endpoints that lie far apart *)

\* Endpoints as (lon, lat): two that lie 0.08 degrees of longitude apart, on
\* either side of the nodes of the provider's graphs, and one on a node
FarPoints == {<<0, 8>>, <<64, 16>>, <<16, 8>>}

FarRequests ==
    [origin : {Some(q) : q \in FarPoints}, destination : {Some(q) : q \in FarPoints},
     malformed : {FALSE}, bbox : {None, Some(BaseBox)}]

\* POST /api/safest-route with far endpoints
ApiSafestRouteFar ==
    \E req \in FarRequests, run \in ProviderRuns :
      \E r \in {api_safest_route(road_graph, graph_bounds, safety_model, blob, csv,
                                 req, run[1], run[2], ServiceTree(csv))} :
           /\ road_graph' = r.globals.road_graph
           /\ graph_bounds' = r.globals.graph_bounds
           /\ safety_model' = r.globals.safety_model
           /\ ret' = [op |-> "api_safest_route", req |-> req, cause |-> r.cause,
                      box |-> r.box,
                      called |-> r.globals.called, path |-> r.globals.path,
                      resp |-> r.resp]
           /\ prev' = IF ret.op = "api_safest_route"
                      THEN [cause |-> ret.cause, code |-> ret.resp.code,
                            status |-> ret.resp.status]
                      ELSE prev
           /\ UNCHANGED <<csv, seen, blob, threads>>

NextFar ==
    \/ ApiSafestRouteFar

SpecFar == InitRoute /\ [][NextFar]_vars

\* The point (lon, lat) lies inside the box
PointIn(q, b) == b.south <= q[2] /\ q[2] <= b.north /\ b.west <= q[1] /\ q[1] <= b.east

\* The request built a fresh graph and reached the routing step on it
RoutedOnFreshBuild ==
    /\ IsRoute
    /\ ret.called
    /\ ret.path = "build"
    /\ ret.cause \in {"ok", "no_path"}

\* C24: a request that built a fresh graph and whose origin or destination
\* lies outside the box the graph was downloaded for is answered with the
\* no-route error, never with a route between the snapped nodes.
C24_OutsideDownloadIsNoPath ==
    (/\ RoutedOnFreshBuild
     /\ \/ ~PointIn(ret.req.origin[1], road_graph[1].area)
        \/ ~PointIn(ret.req.destination[1], road_graph[1].area))
        => /\ ret.cause = "no_path"
           /\ ret.resp = Response(404, "error", MsgNoRoute, <<>>, <<>>)

\* C30: a request without bbox that built a fresh graph has both its origin
\* and its destination inside the box the graph was downloaded for.
C30_DefaultDownloadHoldsEndpoints ==
    (RoutedOnFreshBuild /\ ret.req.bbox = None)
        => /\ PointIn(ret.req.origin[1], road_graph[1].area)
           /\ PointIn(ret.req.destination[1], road_graph[1].area)

-----------------------------------------------------------------------------
(* What a pass of annotate_graph_with_safety writes, and what it leaves *)

\* The edge of the graph before the pass with the endpoints and key of e
Before(e) == CHOOSE b \in ret.arg.edges : b.u = e.u /\ b.v = e.v /\ b.key = e.key

\* Both endpoints of e had coordinates before the pass
HasCoords(e) ==
    /\ ret.arg.xy[e.u][1] # Absent /\ ret.arg.xy[e.u][2] # Absent
    /\ ret.arg.xy[e.v][1] # Absent /\ ret.arg.xy[e.v][2] # Absent

\* The distance of the endpoints of e
EndpointDistance(e) ==
    haversine_meters(ret.arg.xy[e.u][1], ret.arg.xy[e.u][2],
                     ret.arg.xy[e.v][1], ret.arg.xy[e.v][2])

\* sc is the score at the point halfway between the endpoints of e
IsMidpointScore(e, sc) ==
    \E lon, lat \in 0..(4 * Tolerance) :
        /\ 2 * lon = ret.arg.xy[e.u][1] + ret.arg.xy[e.v][1]
        /\ 2 * lat = ret.arg.xy[e.u][2] + ret.arg.xy[e.v][2]
        /\ score_location(safety_model[1], lon, lat).out = Return(sc)

\* C25: after a pass, every edge whose endpoints both have coordinates has
\* as safety the score at the midpoint of its endpoints and as safety_cost
\* the distance of its endpoints divided by (safety + eps); the raw length
\* attribute plays no part.
C25_CoordinateEdgesUseDistance ==
    Annotated =>
        \A e \in road_graph[1].edges :
            HasCoords(e) =>
                /\ e.safety # None /\ e.safety_cost # None
                /\ IsMidpointScore(e, e.safety[1])
                /\ e.safety_cost[1] =
                      Frac(EndpointDistance(e) * e.safety[1][2],
                           e.safety[1][1] * EpsInv + e.safety[1][2])

\* C25 witness: a street between nodes 1 and 2, 80 m apart, whose raw length
\* says 50 m was annotated at a point of score 0
C25_Witness ==
    /\ Annotated
    /\ \E e \in road_graph[1].edges :
          /\ e.u = 1 /\ e.v = 2 /\ HasCoords(e)
          /\ Before(e).length = 50
          /\ EndpointDistance(e) = 80
          /\ e.safety = Some(Zero)
          /\ e.safety_cost = Some(Frac(80, 1))

\* The nodes and (u, v, key, length) of the edges of a graph
Skeleton(G) ==
    [nodes |-> G.nodes, xy |-> G.xy,
     edges |-> {<<e.u, e.v, e.key, e.length>> : e \in G.edges}]

\* C26: a pass of annotate_graph_with_safety, completed or ended by an
\* exception, leaves the nodes, their coordinates, the edges with their keys
\* and raw lengths, and the SafetyModel as they were.
C26_AnnotateFrame ==
    [][ret'.op = "annotate_graph_with_safety"
          => /\ Skeleton(road_graph'[1]) = Skeleton(road_graph[1])
             /\ safety_model' = safety_model]_vars

\* C26 witness: a graph with two parallel edges of raw lengths 0 and 50 was
\* annotated and still has both
C26_Witness ==
    /\ Annotated
    /\ \E e, f \in road_graph[1].edges :
          /\ e.u = f.u /\ e.v = f.v /\ e.key # f.key
          /\ HasCoords(e)
          /\ e.length = 0 /\ f.length = 50
          /\ e.safety # None /\ f.safety # None
          /\ Before(e).safety = None

-----------------------------------------------------------------------------
(* Features without data *)

\* The table has no value of column col for row i: the column is absent, or
\* the cell is empty
NoData(df, col, i) == col \notin df.cols \/ df.rows[i].cells[col] = NaN

\* 1/(1+9999) in units of 1/Scale
Floor == Scale \div 10000

\* C27: in compute_scores a feature without data for a point, whether the
\* cell is empty or the column is absent, counts as distance 9999 or count
\* 0, so the distance part of its component is the floor 1/(1+9999).
C27_NoDataScoredAtFloor ==
    ret.op = "compute_scores" =>
        LET df == TheModel.df
        IN \A i \in 1..NRows(df) :
              /\ NoData(df, COL_DIST_LIGHT, i) =>
                    /\ dist_light(df)[i] = 9999
                    /\ Scale \div (1 + dist_light(df)[i]) = Floor
              /\ NoData(df, COL_DIST_POLICE, i) =>
                    /\ dist_police(df)[i] = 9999
                    /\ Scale \div (1 + dist_police(df)[i]) = Floor
              /\ NoData(df, COL_DIST_STATION, i) =>
                    /\ dist_station(df)[i] = 9999
                    /\ Scale \div (1 + dist_station(df)[i]) = Floor
              /\ NoData(df, COL_COUNT_LIGHT, i) => count_light(df)[i] = 0
              /\ NoData(df, COL_COUNT_POLICE, i) => count_police(df)[i] = 0
              /\ NoData(df, COL_COUNT_STATION, i) => count_station(df)[i] = 0

-----------------------------------------------------------------------------
(* compute_scores on points that differ in the streetlight distance only *)

\* The streetlight distance of a point: at a light, 50 away, none known
LitDistances == {0, 50, 9999, NaN}

\* Tables whose rows differ in distance_to_nearest_streetlight only: every
\* other feature has the same value c in every row.  Row i lies at (i-1, 0).
LitTables ==
    {[cols |-> AllCols,
      rows |-> [i \in DOMAIN ds |->
                  MkRow(i - 1, 0, [col \in FeatureCols |->
                                     IF col = COL_DIST_LIGHT THEN ds[i] ELSE c])]]
        : ds \in SeqsUpTo(LitDistances, MaxLit), c \in {0, 1}}

InitLit ==
    /\ csv \in LitTables
    /\ safety_model = None
    /\ ret = NoOp
    /\ seen = NotSeen
    /\ CacheUnused

NextLit ==
    \/ SM_Construct
    \/ SM_ComputeScores({DefaultWeights})

SpecLit == InitLit /\ [][NextLit]_vars

\* The streetlight distance row i is scored with
LitDistance(i) ==
    IF TheModel.df.rows[i].cells[COL_DIST_LIGHT] = NaN THEN 9999
    ELSE TheModel.df.rows[i].cells[COL_DIST_LIGHT]

\* a/b <= c/d for a, c >= 0 and b, d > 0, by comparing the integer parts
\* and then the reciprocals of the remainders (no product is formed)
RECURSIVE RatioLE(_, _, _, _)
RatioLE(a, b, c, d) ==
    IF a \div b # c \div d THEN a \div b < c \div d
    ELSE IF a % b = 0 THEN TRUE
    ELSE IF c % d = 0 THEN FALSE
    ELSE RatioLE(d, c % d, b, a % b)

\* The score x is at most the score y
ScoreLE(x, y) == RatioLE(x[1], x[2], y[1], y[2])

\* C28: under the default weights, among points that differ in the
\* streetlight distance only, a point that is not nearer to a streetlight
\* than another has no higher score; when the distances differ the nearest
\* point has score 1 and the farthest score 0, and points at the same
\* distance have the same score.
C28_ScoreFallsWithLightDistance ==
    ret.op = "compute_scores" =>
        LET n == NRows(TheModel.df)
        IN \A i, j \in 1..n :
              /\ LitDistance(i) <= LitDistance(j) => ScoreLE(TheScores[j], TheScores[i])
              /\ LitDistance(i) = LitDistance(j) => TheScores[i] = TheScores[j]
              /\ (LitDistance(i) < LitDistance(j)
                    /\ \A k \in 1..n : LitDistance(i) <= LitDistance(k)
                                        /\ LitDistance(k) <= LitDistance(j))
                   => (TheScores[i] = One /\ TheScores[j] = Zero)

\* C28 witness: the four points at distances 0, 50, 9999, 9999 got the
\* scores 1, something strictly between 0 and 1, 0 and 0
C28_Witness ==
    /\ ret.op = "compute_scores"
    /\ NRows(TheModel.df) = 4
    /\ [i \in 1..4 |-> TheModel.df.rows[i].cells[COL_DIST_LIGHT]] = <<0, 50, 9999, 9999>>
    /\ TheScores[1] = One
    /\ TheScores[3] = Zero /\ TheScores[4] = Zero
    /\ TheScores[2] \notin {Zero, One}
    /\ ScoreLE(TheScores[3], TheScores[2])

-----------------------------------------------------------------------------
(* Concurrent score requests: api_safety_score (src/app.py:534-554) and    *)
(* the lazy init_safety_model (src/app.py:26-34) run by the threads of the *)
(* server, statement by statement, on the shared global safety_model.      *)
(*                                                                         *)
(* A thread's local sm is a reference.  It either aliases the object the   *)
(* global holds now (alias), or an object that a later line 31 has         *)
(* displaced from the global (val): line 32 calls compute_scores on the    *)
(* global, so a displaced object never changes again and is kept by value. *)

NoRef == [alias |-> FALSE, val |-> None]
GlobalRef == [alias |-> TRUE, val |-> None]

\* A thread outside api_safety_score; built: it has executed line 31
Waiting == [pc |-> "idle", q |-> <<0, 0>>, sm |-> NoRef, built |-> FALSE]

\* Line 536-542: a score request arrives and calls init_safety_model()
S_Call(t) ==
    /\ threads[t].pc = "idle"
    /\ \E q \in Points :
         threads' = [threads EXCEPT ![t].pc = "L29", ![t].q = q, ![t].sm = NoRef]
    /\ UNCHANGED <<csv, safety_model, ret, seen, road_graph, graph_bounds, blob, prev>>

\* Line 29: if safety_model is None
S_Test(t) ==
    /\ threads[t].pc = "L29"
    /\ threads' = [threads EXCEPT ![t].pc = IF safety_model = None THEN "L31" ELSE "L34"]
    /\ UNCHANGED <<csv, safety_model, ret, seen, road_graph, graph_bounds, blob, prev>>

\* Lines 30-31: safety_model = SafetyModel(csv_path); the object the global
\* held stays with the threads that hold a reference to it
S_Construct(t) ==
    /\ threads[t].pc = "L31"
    /\ safety_model' = Some(SafetyModelInit(csv, ServiceTree(csv)))
    /\ threads' = [u \in Threads |->
                     IF u = t THEN [threads[u] EXCEPT !.pc = "L32", !.built = TRUE]
                     ELSE IF threads[u].sm.alias
                     THEN [threads[u] EXCEPT !.sm = [alias |-> FALSE, val |-> safety_model]]
                     ELSE threads[u]]
    /\ UNCHANGED <<csv, ret, seen, road_graph, graph_bounds, blob, prev>>

\* Line 32: safety_model.compute_scores(), on the object the global holds now
S_Compute(t) ==
    /\ threads[t].pc = "L32"
    /\ safety_model' = Some(compute_scores(safety_model[1], DefaultWeights))
    /\ threads' = [threads EXCEPT ![t].pc = "L34"]
    /\ UNCHANGED <<csv, ret, seen, road_graph, graph_bounds, blob, prev>>

\* Line 34: return safety_model (sm = init_safety_model() at line 542)
S_Return(t) ==
    /\ threads[t].pc = "L34"
    /\ threads' = [threads EXCEPT ![t].pc = "L543", ![t].sm = GlobalRef]
    /\ UNCHANGED <<csv, safety_model, ret, seen, road_graph, graph_bounds, blob, prev>>

\* Lines 543-554: score = sm.score_location(lon, lat) and the response
S_Score(t) ==
    /\ threads[t].pc = "L543"
    /\ \E obj \in {IF threads[t].sm.alias THEN safety_model[1] ELSE threads[t].sm.val[1]} :
         ret' = [op |-> "api_safety_score", thread |-> t, arg |-> threads[t].q,
                 out |-> score_location(obj, threads[t].q[1], threads[t].q[2]).out]
    /\ threads' = [threads EXCEPT ![t].pc = "idle", ![t].sm = NoRef]
    /\ UNCHANGED <<csv, safety_model, seen, road_graph, graph_bounds, blob, prev>>

InitLazy ==
    /\ csv \in ServiceTables
    /\ safety_model = None
    /\ ret = NoOp
    /\ seen = NotSeen
    /\ road_graph = None
    /\ graph_bounds = None
    /\ blob = NoBlob
    /\ prev = NoPrev
    /\ threads = [t \in Threads |-> Waiting]

NextLazy ==
    \E t \in Threads :
        \/ S_Call(t)
        \/ S_Test(t)
        \/ S_Construct(t)
        \/ S_Compute(t)
        \/ S_Return(t)
        \/ S_Score(t)

SpecLazy == InitLazy /\ [][NextLazy]_vars

-----------------------------------------------------------------------------
(* Properties of the lazy SafetyModel under concurrent requests *)

\* The threads that have constructed a SafetyModel
Builders == {t \in Threads : threads[t].built}

\* C29: under concurrent score requests no score_location call made through
\* init_safety_model fails with the "not computed" error, and at most one
\* SafetyModel is constructed.
C29_LazyModelComputedOnce ==
    /\ ret.op = "api_safety_score" => (ret.out.ok \/ ret.out.err # ErrNotComputed)
    /\ Cardinality(Builders) <= 1

====
